---- MODULE Spec2Model ----
(***************************************************************************)
(* papergrid: a grid of text cells rendered as a bordered block of text.   *)
(*                                                                         *)
(* A String is a sequence of characters; a character is a one-element      *)
(* token.  "a" is a one-byte character, "U+E9" a character whose UTF-8     *)
(* encoding takes two bytes, NL the line feed.                             *)
(***************************************************************************)
EXTENDS Integers, Sequences, FiniteSets

VARIABLES
    pc,             \* position of the calling program
    size,           \* Grid.size
    cells,          \* Grid.cells
    nsets,          \* number of setter calls made on the grid so far
    handle,         \* the last Grid::cell(i, j) call and what it returned
    rows_height,    \* Display::fmt local
    columns_weight, \* Display::fmt local
    fmt_cells,      \* Display::fmt local `cells`: the formatted cells, by row
    row_index,      \* Display::fmt: the row the final for_each is at
    out,            \* the Formatter's sink
    cell,           \* a stand-alone Cell (as in the cell_formating_* tests)
    formatter,      \* a stand-alone CellFormatter
    text,           \* align's text argument
    a,              \* align's alignment argument
    length,         \* align's length argument
    ret             \* the value returned by a stand-alone format or align call

vars == <<pc, size, cells, nsets, handle, rows_height, columns_weight, fmt_cells,
          row_index, out, cell, formatter, text, a, length, ret>>

---------------------------------------------------------------------------
(* Bounds *)

MaxRows == 2

MaxCols == 2

MaxSets == 2

MaxLen == 2

MaxIdent == 1

MaxWeight == 2

MaxHeight == 2

MaxText == 2

MaxLength == 3

MaxAlignRows == 2

MaxAlignLen == 1

---------------------------------------------------------------------------
(* Characters and strings *)

NL == "LF"

SP == " "

Letters == {"a", "U+E9"}

Alphabet == Letters \cup {NL}

StringsOver(S, n) == UNION {[1..k -> S] : k \in 0..n}

Contents == StringsOver(Alphabet, MaxLen)

Texts == StringsOver(Letters, MaxText)

Corners == {<<"+">>, <<>>}

Alignment == {"Center", "Left", "Right"}

\* number of bytes of the UTF-8 encoding of one character
len_utf8(ch) == IF ch = "U+E9" THEN 2 ELSE 1

RECURSIVE str_len(_)
\* str::len: the length of a string in bytes
str_len(s) == IF s = <<>> THEN 0 ELSE len_utf8(Head(s)) + str_len(Tail(s))

\* str::chars().count()
chars_count(s) == Len(s)

RECURSIVE repeat(_, _)
\* str::repeat
repeat(s, n) == IF n = 0 THEN <<>> ELSE s \o repeat(s, n - 1)

RECURSIVE split_nl(_)
\* the pieces of s between line feeds (k line feeds give k + 1 pieces)
split_nl(s) ==
    IF s = <<>> THEN << <<>> >>
    ELSE LET rest == split_nl(Tail(s))
         IN  IF Head(s) = NL THEN << <<>> >> \o rest
             ELSE << <<Head(s)>> \o Head(rest) >> \o Tail(rest)

\* str::lines: the final line ending is optional, so a last empty piece is dropped
lines(s) ==
    LET p == split_nl(s)
    IN  IF p[Len(p)] = <<>> THEN SubSeq(p, 1, Len(p) - 1) ELSE p

RECURSIVE join(_, _)
\* [String]::join
join(ls, sep) ==
    IF ls = <<>> THEN <<>>
    ELSE IF Len(ls) = 1 THEN ls[1]
    ELSE ls[1] \o sep \o join(Tail(ls), sep)

\* Iterator::max().map_or(0, |m| m)
max_or_0(S) == IF S = {} THEN 0 ELSE CHOOSE m \in S : \A x \in S : x <= m

Range(f) == {f[k] : k \in DOMAIN f}

---------------------------------------------------------------------------
(* Cell *)

Cell_new ==
    [ content   |-> <<>>,
      alignment |-> "Center",
      border    |-> [top |-> <<"-">>, bottom |-> <<"-">>, left |-> <<"|">>,
                     right |-> <<"|">>, corner |-> <<"+">>],
      ident     |-> [top |-> 0, bottom |-> 0, left |-> 0, right |-> 0] ]

Cell_set_content(c, s) == [c EXCEPT !.content = s]

Cell_set_corner(c, s) == [c EXCEPT !.border.corner = s]

Cell_set_alignment(c, al) == [c EXCEPT !.alignment = al]

Cell_set_vertical_ident(c, n) == [c EXCEPT !.ident.top = n, !.ident.bottom = n]

Cell_set_horizontal_ident(c, n) == [c EXCEPT !.ident.left = n, !.ident.right = n]

Cell_height(c) == Len(lines(c.content))

Cell_weight(c) == max_or_0({str_len(l) : l \in Range(lines(c.content))})

---------------------------------------------------------------------------
(* CellFormatter *)

CellFormatter_new ==
    [ left |-> FALSE, right |-> FALSE, top |-> FALSE, bottom |-> FALSE,
      left_connection |-> FALSE, right_connection |-> FALSE,
      weight |-> 0, height |-> 0 ]

un_left(f) == [f EXCEPT !.left = FALSE]

un_left_connection(f) == [f EXCEPT !.left_connection = FALSE]

un_top(f) == [f EXCEPT !.top = FALSE]

boxed(f) ==
    [f EXCEPT !.left = TRUE, !.right = TRUE, !.top = TRUE, !.bottom = TRUE,
              !.right_connection = TRUE, !.left_connection = TRUE]

with_weight(f, w) == [f EXCEPT !.weight = w]

with_height(f, h) == [f EXCEPT !.height = h]

\* the extra space of Center on the left instead of the right
align_center_left(t, al, n) ==
    LET d == n - chars_count(t)
    IN  IF d <= 0 THEN t
        ELSE CASE al = "Center" -> repeat(<<SP>>, d - d \div 2) \o t \o repeat(<<SP>>, d \div 2)
               [] al = "Left"   -> t \o repeat(<<SP>>, d)
               [] al = "Right"  -> repeat(<<SP>>, d) \o t

\* format!("{: ^1$}" / "{: <1$}" / "{: >1$}"): the width counts characters
align(t, al, n) ==
    LET d == n - chars_count(t)
    IN  IF d <= 0 THEN t
        ELSE CASE al = "Center" -> repeat(<<SP>>, d \div 2) \o t \o repeat(<<SP>>, (d + 1) \div 2)
               [] al = "Left"   -> t \o repeat(<<SP>>, d)
               [] al = "Right"  -> repeat(<<SP>>, d) \o t

\* format, lines 252-260: the width the content lines are aligned to
format_weight(f, c) ==
    IF f.weight = 0
    THEN max_or_0({chars_count(l) : l \in Range(lines(c.content))})
    ELSE f.weight

\* format, lines 262-270: the content after height padding and vertical ident
format_content(f, c) ==
    LET count_lines == Len(lines(c.content))
        padded == IF count_lines < f.height
                  THEN c.content \o repeat(<<NL>>, f.height - count_lines + 1)
                  ELSE c.content
    IN  repeat(<<NL>>, c.ident.top) \o (padded \o repeat(<<NL>>, c.ident.bottom))

\* format, lines 272-290: the aligned, idented, bordered content lines
format_body(f, c) ==
    LET weight == format_weight(f, c)
        ls == lines(format_content(f, c))
        left_ident == repeat(<<SP>>, c.ident.left)
        right_ident == repeat(<<SP>>, c.ident.right)
        left_border == IF f.left THEN c.border.left ELSE <<>>
        right_border == IF f.right THEN c.border.right ELSE <<>>
    IN  [k \in 1..Len(ls) |->
            left_border \o left_ident \o align(ls[k], c.alignment, weight)
                        \o right_ident \o right_border]

\* format, lines 278-304: the vector `lines` that is joined at the end
format_lines(f, c) ==
    LET lhs == IF f.left_connection THEN c.border.corner ELSE <<>>
        rhs == IF f.right_connection THEN c.border.corner ELSE <<>>
        weight == format_weight(f, c) + c.ident.left + c.ident.right
        top == IF f.top THEN << lhs \o repeat(c.border.top, weight) \o rhs >> ELSE <<>>
        bottom == IF f.bottom THEN << lhs \o repeat(c.border.bottom, weight) \o rhs >> ELSE <<>>
    IN  top \o format_body(f, c) \o bottom

CellFormatter_format(f, c) == join(format_lines(f, c), <<NL>>)

---------------------------------------------------------------------------
(* concat_row / concat_lines *)

\* the value standing for a panic of assert_eq!
Panic == <<"PANIC">>

concat_lines(x, y) ==
    LET xs == lines(x)
        ys == lines(y)
    IN  IF Len(xs) # Len(ys) THEN Panic
        ELSE join([k \in 1..Len(xs) |-> xs[k] \o ys[k]], <<NL>>)

RECURSIVE concat_from(_, _, _)
\* the for loop of concat_row: `acc` is `row`, k the next element the iterator yields
concat_from(acc, row, k) ==
    IF k > Len(row) THEN acc
    ELSE LET r == concat_lines(acc, row[k])
         IN  IF r = Panic THEN Panic ELSE concat_from(r, row, k + 1)

concat_row(row) == IF row = <<>> THEN <<>> ELSE concat_from(row[1], row, 2)

---------------------------------------------------------------------------
(* Grid *)

count_rows == size[1]

count_columns == size[2]

\* Vec::get_mut(index): Some exactly when index < len
Grid_cell(i, j) ==
    LET index == count_columns * i + j
    IN  [i |-> i, j |-> j, ok |-> index < Len(cells), index |-> index]

Grid_row(i) ==
    LET start_index == count_columns * i
    IN  SubSeq(cells, start_index + 1, start_index + count_columns)

Grid_column(j) == [i \in 1..count_rows |-> cells[count_columns * (i - 1) + j + 1]]

\* the CellFormatter Display::fmt builds for the cell at (row_index, column_index)
fmt_formatter(ri, ci, weights, heights) ==
    LET f0 == boxed(with_height(with_weight(CellFormatter_new, weights[ci + 1]),
                                heights[ri + 1]))
        f1 == IF ci # 0 THEN un_left_connection(un_left(f0)) ELSE f0
    IN  IF ri # 0 THEN un_top(f1) ELSE f1

---------------------------------------------------------------------------
(* Initial states *)

NoHandle == [i |-> 0, j |-> 0, ok |-> TRUE, index |-> 0]

InitLocals ==
    /\ rows_height = <<>>
    /\ columns_weight = <<>>
    /\ fmt_cells = <<>>
    /\ row_index = 0
    /\ out = <<>>

InitUnit ==
    /\ cell = Cell_new
    /\ formatter = CellFormatter_new
    /\ ret = <<>>

InitAlignArgs ==
    /\ text = <<>>
    /\ a = "Center"
    /\ length = 0

\* Grid::new(rows, columns)
InitGrid ==
    /\ pc = "idle"
    /\ \E rows \in 0..MaxRows, columns \in 0..MaxCols :
          /\ size = <<rows, columns>>
          /\ cells = [k \in 1..(rows * columns) |-> Cell_new]
    /\ nsets = 0
    /\ handle = NoHandle
    /\ InitLocals /\ InitUnit /\ InitAlignArgs

\* Cell::new() and CellFormatter::new(), used without a grid
InitCell ==
    /\ pc = "cell"
    /\ size = <<0, 0>>
    /\ cells = <<>>
    /\ nsets = 0
    /\ handle = NoHandle
    /\ InitLocals /\ InitUnit /\ InitAlignArgs

Init == InitGrid \/ InitCell

\* the arguments of a call of align
InitAlignCall ==
    /\ pc = "align"
    /\ text \in Texts
    /\ a \in Alignment
    /\ length \in 0..MaxLength
    /\ size = <<0, 0>>
    /\ cells = <<>>
    /\ nsets = 0
    /\ handle = NoHandle
    /\ InitLocals /\ InitUnit

\* a one-column grid whose cells had set_content and set_alignment called on them
InitAlignGrid ==
    /\ pc = "idle"
    /\ \E rows \in 1..MaxAlignRows :
          /\ size = <<rows, 1>>
          /\ cells \in [1..rows ->
                {Cell_set_alignment(Cell_set_content(Cell_new, s), al) :
                    s \in StringsOver(Alphabet, MaxAlignLen), al \in Alignment}]
    /\ nsets = 0
    /\ handle = NoHandle
    /\ InitLocals /\ InitUnit /\ InitAlignArgs

InitAlign == InitAlignCall \/ InitAlignGrid

---------------------------------------------------------------------------
(* Populating a grid: grid.cell(i, j).set_*(..) *)

GridUnchanged ==
    UNCHANGED <<size, rows_height, columns_weight, fmt_cells, row_index, out,
                cell, formatter, text, a, length, ret>>

\* the cell behind a handle (only read when the handle is Some)
Deref(h) == IF h.ok THEN cells[h.index + 1] ELSE Cell_new

\* unwrap() of the handle, then the write through it
Store(h, c) ==
    /\ pc = "idle"
    /\ nsets < MaxSets
    /\ nsets' = nsets + 1
    /\ handle' = h
    /\ IF h.ok
       THEN /\ cells' = [cells EXCEPT ![h.index + 1] = c]
            /\ pc' = "idle"
       ELSE /\ cells' = cells
            /\ pc' = "panic_index"
    /\ GridUnchanged

GridSetContent ==
    \E i \in 0..MaxRows, j \in 0..MaxCols, s \in Contents :
        LET h == Grid_cell(i, j) IN Store(h, Cell_set_content(Deref(h), s))

GridSetCorner ==
    \E i \in 0..MaxRows, j \in 0..MaxCols, s \in Corners :
        LET h == Grid_cell(i, j) IN Store(h, Cell_set_corner(Deref(h), s))

GridSetAlignment ==
    \E i \in 0..MaxRows, j \in 0..MaxCols, al \in Alignment :
        LET h == Grid_cell(i, j) IN Store(h, Cell_set_alignment(Deref(h), al))

GridSetVerticalIdent ==
    \E i \in 0..MaxRows, j \in 0..MaxCols, n \in 0..MaxIdent :
        LET h == Grid_cell(i, j) IN Store(h, Cell_set_vertical_ident(Deref(h), n))

GridSetHorizontalIdent ==
    \E i \in 0..MaxRows, j \in 0..MaxCols, n \in 0..MaxIdent :
        LET h == Grid_cell(i, j) IN Store(h, Cell_set_horizontal_ident(Deref(h), n))

---------------------------------------------------------------------------
(* Display::fmt *)

\* lines 82-120: the heights, the weights and the formatted cells
fmt_begin ==
    /\ pc = "idle"
    /\ pc' = "fmt"
    /\ rows_height' =
          [i \in 1..count_rows |-> max_or_0({Cell_height(c) : c \in Range(Grid_row(i - 1))})]
    /\ columns_weight' =
          [j \in 1..count_columns |-> max_or_0({Cell_weight(c) : c \in Range(Grid_column(j - 1))})]
    /\ fmt_cells' =
          [i \in 1..count_rows |->
              [j \in 1..count_columns |->
                  CellFormatter_format(fmt_formatter(i - 1, j - 1, columns_weight', rows_height'),
                                       Grid_row(i - 1)[j])]]
    /\ row_index' = 0
    /\ UNCHANGED <<size, cells, nsets, handle, out, cell, formatter, text, a, length, ret>>

\* lines 122-124: one turn of the for_each; concat_row may panic
fmt_row ==
    /\ pc = "fmt"
    /\ row_index < Len(fmt_cells)
    /\ LET r == concat_row(fmt_cells[row_index + 1])
       IN  IF r = Panic
           THEN /\ pc' = "panic_concat"
                /\ UNCHANGED <<out, row_index>>
           ELSE /\ out' = out \o r \o <<NL>>
                /\ row_index' = row_index + 1
                /\ pc' = "fmt"
    /\ UNCHANGED <<size, cells, nsets, handle, rows_height, columns_weight, fmt_cells,
                   cell, formatter, text, a, length, ret>>

\* line 126: Ok(())
fmt_end ==
    /\ pc = "fmt"
    /\ row_index = Len(fmt_cells)
    /\ pc' = "done"
    /\ UNCHANGED <<size, cells, nsets, handle, rows_height, columns_weight, fmt_cells,
                   row_index, out, cell, formatter, text, a, length, ret>>

---------------------------------------------------------------------------
(* A Cell and a CellFormatter used on their own *)

UnitUnchanged ==
    UNCHANGED <<pc, size, cells, nsets, handle, rows_height, columns_weight, fmt_cells,
                row_index, out, text, a, length, ret>>

CellSetContent ==
    /\ pc = "cell"
    /\ \E s \in Contents : cell' = Cell_set_content(cell, s)
    /\ UNCHANGED formatter /\ UnitUnchanged

CellSetCorner ==
    /\ pc = "cell"
    /\ \E s \in Corners : cell' = Cell_set_corner(cell, s)
    /\ UNCHANGED formatter /\ UnitUnchanged

CellSetAlignment ==
    /\ pc = "cell"
    /\ \E al \in Alignment : cell' = Cell_set_alignment(cell, al)
    /\ UNCHANGED formatter /\ UnitUnchanged

CellSetVerticalIdent ==
    /\ pc = "cell"
    /\ \E n \in 0..MaxIdent : cell' = Cell_set_vertical_ident(cell, n)
    /\ UNCHANGED formatter /\ UnitUnchanged

CellSetHorizontalIdent ==
    /\ pc = "cell"
    /\ \E n \in 0..MaxIdent : cell' = Cell_set_horizontal_ident(cell, n)
    /\ UNCHANGED formatter /\ UnitUnchanged

FormatterBoxed ==
    /\ pc = "cell"
    /\ formatter' = boxed(formatter)
    /\ UNCHANGED cell /\ UnitUnchanged

FormatterWeight ==
    /\ pc = "cell"
    /\ \E w \in 0..MaxWeight : formatter' = with_weight(formatter, w)
    /\ UNCHANGED cell /\ UnitUnchanged

FormatterHeight ==
    /\ pc = "cell"
    /\ \E h \in 0..MaxHeight : formatter' = with_height(formatter, h)
    /\ UNCHANGED cell /\ UnitUnchanged

Format ==
    /\ pc = "cell"
    /\ pc' = "formatted"
    /\ ret' = CellFormatter_format(formatter, cell)
    /\ UNCHANGED <<size, cells, nsets, handle, rows_height, columns_weight, fmt_cells,
                   row_index, out, cell, formatter, text, a, length>>

Next ==
    \/ GridSetContent
    \/ GridSetCorner
    \/ GridSetAlignment
    \/ GridSetVerticalIdent
    \/ GridSetHorizontalIdent
    \/ fmt_begin
    \/ fmt_row
    \/ fmt_end
    \/ CellSetContent
    \/ CellSetCorner
    \/ CellSetAlignment
    \/ CellSetVerticalIdent
    \/ CellSetHorizontalIdent
    \/ FormatterBoxed
    \/ FormatterWeight
    \/ FormatterHeight
    \/ Format

Spec == Init /\ [][Next]_vars

\* a call of align on its own
AlignCall ==
    /\ pc = "align"
    /\ pc' = "aligned"
    /\ ret' = align(text, a, length)
    /\ UNCHANGED <<size, cells, nsets, handle, rows_height, columns_weight, fmt_cells,
                   row_index, out, cell, formatter, text, a, length>>

NextAlign ==
    \/ AlignCall
    \/ fmt_begin
    \/ fmt_row
    \/ fmt_end

SpecAlign == InitAlign /\ [][NextAlign]_vars

---------------------------------------------------------------------------
(* Properties *)

\* Display::fmt has formatted the cells of the grid
Rendered == pc \in {"fmt", "done", "panic_concat"}

NonEmptyGrid == count_rows >= 1 /\ count_columns >= 1

RECURSIVE Sum(_)
Sum(f) == IF f = <<>> THEN 0 ELSE Head(f) + Sum(Tail(f))

Max(x, y) == IF x >= y THEN x ELSE y

\* a line holding nothing but spaces and the left and right border glyphs
IsBlank(l) == \A k \in DOMAIN l : l[k] \in {SP, "|"}

\* the lines format puts between the top border and the bottom border
ContentArea(f, c) ==
    LET ls == format_lines(f, c)
    IN  SubSeq(ls, 2, Len(ls) - 1)

\* C1: rendering never hits the line-count mismatch of concat_lines: all formatted
\* cells of one row have the same number of lines, whatever the contents and the
\* vertical idents, and no render ends in the assert_eq panic.
C1_RowLinesAgree ==
    /\ pc # "panic_concat"
    /\ Rendered =>
          \A i \in DOMAIN fmt_cells : \A j \in DOMAIN fmt_cells[i] :
              Len(lines(fmt_cells[i][j])) = Len(lines(fmt_cells[i][1]))

\* C2: Grid::cell(i, j) fails exactly for the pairs (i, j) outside
\* [0, rows) x [0, columns); a call with j >= columns never returns a handle to a
\* cell of another row.
C2_CellFailsOutside ==
    nsets > 0 =>
        (handle.ok <=> (handle.i < count_rows /\ handle.j < count_columns))

\* C3: a grid with 0 rows or 0 columns renders to the empty string.
C3_EmptyGridRendersEmpty ==
    (pc = "done" /\ (count_rows = 0 \/ count_columns = 0)) => out = <<>>

\* C4: for every grid with rows >= 1 and columns >= 1 render produces
\* 1 + sum over rows i of (rows_height[i] + 1) lines, each ended by a line break.
C4_LineCount ==
    (pc \in {"done", "panic_concat"} /\ NonEmptyGrid) =>
        /\ pc = "done"
        /\ out[Len(out)] = NL
        /\ Len(lines(out)) = 1 + Sum([i \in DOMAIN rows_height |-> rows_height[i] + 1])

\* C5: in the rendered output of a grid with >= 2 columns all lines have the same
\* length and the seam after column j is at the same position in every line of
\* every row, whatever the contents, horizontal idents and corner glyphs.
C5_ColumnsLineUp ==
    (pc = "done" /\ count_rows >= 1 /\ count_columns >= 2) =>
        /\ \A l1, l2 \in Range(lines(out)) : Len(l1) = Len(l2)
        /\ \A j \in 1..count_columns :
              \A i1, i2 \in DOMAIN fmt_cells :
                  \A l1 \in Range(lines(fmt_cells[i1][j])), l2 \in Range(lines(fmt_cells[i2][j])) :
                      Len(l1) = Len(l2)

\* C6: render is all-or-nothing: when concat_row fails on some row, nothing has
\* been written to the sink.
C6_AllOrNothing == pc = "panic_concat" => out = <<>>

\* C7: Cell::weight() is the largest number of characters of a content line, so
\* the width of column j used by render is the largest character count of a
\* content line of that column, and it is the width CellFormatter derives from the
\* content when no width is supplied.
C7_WeightCountsChars ==
    Rendered =>
        /\ \A j \in DOMAIN columns_weight :
              columns_weight[j] =
                  max_or_0({chars_count(l) :
                      l \in UNION {Range(lines(c.content)) : c \in Range(Grid_column(j - 1))}})
        /\ \A k \in DOMAIN cells :
              Cell_weight(cells[k]) = format_weight(CellFormatter_new, cells[k])

\* C8: after set_vertical_ident(n) a boxed format puts exactly n blank lines between
\* the top border and the first content line and exactly n blank lines between the
\* last content line (after height padding) and the bottom border: the content area
\* is the content area of the same cell without vertical ident, with n blank lines
\* before it and n blank lines after it.
C8_VerticalIdentSymmetric ==
    (pc = "formatted" /\ formatter.top /\ formatter.bottom) =>
        LET area == ContentArea(formatter, cell)
            inner == ContentArea(formatter, Cell_set_vertical_ident(cell, 0))
            n == cell.ident.top
        IN  /\ cell.ident.bottom = n
            /\ Len(area) = n + Len(inner) + n
            /\ SubSeq(area, n + 1, n + Len(inner)) = inner
            /\ \A k \in 1..n : IsBlank(area[k]) /\ IsBlank(area[Len(area) + 1 - k])

\* C9: with zero padding a cell whose content has n lines is stretched to exactly
\* the target height h when h > n (the lines after the first n being blank) and
\* keeps its n lines when h <= n, for every content.
C9_HeightPadding ==
    (/\ pc = "formatted" /\ formatter.top /\ formatter.bottom
     /\ cell.ident.top = 0 /\ cell.ident.bottom = 0
     /\ cell.ident.left = 0 /\ cell.ident.right = 0) =>
        LET area == ContentArea(formatter, cell)
            n == Cell_height(cell)
        IN  /\ Len(area) = Max(n, formatter.height)
            /\ \A k \in (n + 1)..Len(area) :
                  /\ IsBlank(area[k])
                  /\ Len(area[k]) = format_weight(formatter, cell) + 2

\* C10: align pads with spaces to exactly `length` characters when d = length -
\* len(text) > 0 (Left: d on the right; Right: d on the left; Center: floor(d/2) on
\* the left and ceil(d/2) on the right) and returns longer text unchanged; and every
\* content line of a cell rendered in a grid has exactly columns_weight[j]
\* characters before ident and borders are added.
C10_AlignPads ==
    /\ pc = "aligned" =>
          LET d == length - Len(text)
              l == CASE a = "Left" -> 0 [] a = "Right" -> d [] a = "Center" -> d \div 2
          IN  IF d > 0
              THEN /\ Len(ret) = length
                   /\ SubSeq(ret, l + 1, l + Len(text)) = text
                   /\ \A k \in (1..l) \cup ((l + Len(text) + 1)..length) : ret[k] = SP
              ELSE ret = text
    /\ Rendered =>
          \A i \in 1..count_rows : \A j \in 1..count_columns :
              LET f == fmt_formatter(i - 1, j - 1, columns_weight, rows_height)
                  c == Grid_row(i - 1)[j]
              IN  \A t \in Range(lines(format_content(f, c))) :
                      Len(align(t, c.alignment, format_weight(f, c))) = columns_weight[j]

\* align was called with Center and an odd number of missing characters
C10_Witness ==
    /\ pc = "aligned"
    /\ a = "Center"
    /\ text # <<>>
    /\ length > Len(text)
    /\ (length - Len(text)) % 2 = 1

====
